---- MODULE Spec2Model ----
(***************************************************************************)
(* Recipe API of the MERN recipe application (backend/routes/recipes.js).  *)
(*                                                                         *)
(* Every route handler is an async function: between two awaits other      *)
(* requests run.  A request is therefore a small process whose position    *)
(* (pc) advances from one await to the next; the Recipe Store (MongoDB     *)
(* through Mongoose) and the Media Sidecar (Cloudinary) are the shared     *)
(* state.                                                                  *)
(*                                                                         *)
(* Mongoose's document.save() sends the changes made to the loaded         *)
(* document, not the document: Array.push becomes {$push, $inc: __v},      *)
(* Array.splice and an assigned array become {$set, $inc: __v} guarded by  *)
(* the __v read, an assigned scalar becomes {$set}.  Save below applies    *)
(* the same operations.                                                    *)
(***************************************************************************)
EXTENDS Integers, Sequences, FiniteSets, TLC

(***************************************************************************)
(* Bounds of the model.                                                    *)
(***************************************************************************)
\* requests accepted in one run of the server model
MaxReq == 2
\* requests accepted in one run of the like model
MaxLikeReq == 4
\* requests accepted in one run of the read model
MaxReadReq == 3
\* requests accepted in one run of the catalog model
MaxCatReq == 2
\* requests accepted in one run of the favorites model
MaxFavReq == 3
\* requests accepted in one run of the race model
MaxRaceReq == 3
\* heart clicks handled in one run of the Explore model
MaxClicks == 2
\* requests accepted in the media model
MaxMediaReq == 2
\* update requests submitted from the EditRecipe form
MaxFormReq == 2
\* requests accepted in one run of the delete model
MaxDelReq == 3
\* length of the ingredient lists enumerated over Strs
MaxLen == 2
\* largest number of indexed keys ingredients[0] .. ingredients[n-1]
MaxKeys == 11

(***************************************************************************)
(* Users.  The admin is the account whose email is the sentinel of         *)
(* recipes.js:286 and :358.                                                *)
(***************************************************************************)
AdminEmail == "admin@gmail.com"

Users == {"u1", "u2", "root"}

Anon == "anonymous"

Email(u) == IF u = "root" THEN AdminEmail ELSE "user@mail"

(***************************************************************************)
(* JavaScript values of the request and of the document.                   *)
(***************************************************************************)
\* a field that is not in req.body (undefined)
Absent == "<undefined>"

\* !x for a string-or-undefined x
Falsy(x) == x = Absent \/ x = ""

\* String.prototype.trim() on the strings of the model
Trim(s) == IF s = " " THEN "" ELSE s

NoImage == [t |-> "null", folder |-> "", name |-> 0]

EmptyImage == [t |-> "empty", folder |-> "", name |-> 0]

UndefImage == [t |-> "undefined", folder |-> "", name |-> 0]

NoDoc == [exists |-> FALSE]

(***************************************************************************)
(* Strings of the model: the empty string, a blank, two words and a string *)
(* that is a JSON number.                                                  *)
(***************************************************************************)
Strs == {"", " ", "salt", "7"}

\* the strings that are elements of a list
Items == {"", " ", "salt"}

\* strings JSON.parse reads as a scalar (a number), not as an array
JsonScalars == {"7"}

\* the lists of at most n strings of S
ListsUpTo(S, n) == UNION {[1..k -> S] : k \in 0..n}

\* the i-th of the distinct names used for long indexed-key payloads
KeyName(i) == "k" \o ToString(i)

LongList(n) == [i \in 1..n |-> KeyName(i - 1)]

\* the ingredient lists a client may send
Lists == ListsUpTo(Items, MaxLen) \cup {LongList(n) : n \in (MaxKeys - 1)..MaxKeys}

(***************************************************************************)
(* JSON.stringify of an array of strings, and Array.prototype.toString     *)
(* (the elements joined by commas), as text.                               *)
(***************************************************************************)
RECURSIVE JoinWith(_, _)
JoinWith(L, q) ==
    IF L = <<>> THEN ""
    ELSE IF Len(L) = 1 THEN q \o L[1] \o q
    ELSE q \o L[1] \o q \o "," \o JoinWith(Tail(L), q)

JsonText(L) == "[" \o JoinWith(L, "\"") \o "]"

ArrayToString(L) == JoinWith(L, "")

(***************************************************************************)
(* JSON.parse(text): the array a JSON array text encodes, a scalar for a   *)
(* JSON number, and a SyntaxError for any other text of the model.         *)
(***************************************************************************)
JsonTexts == {JsonText(L) : L \in Lists}

JSONParse(text) ==
    IF text \in JsonTexts
    THEN [r |-> "array", a |-> CHOOSE L \in Lists : JsonText(L) = text]
    ELSE IF text \in JsonScalars
    THEN [r |-> "scalar", a |-> <<>>]
    ELSE [r |-> "throws", a |-> <<>>]

(***************************************************************************)
(* req.body.ingredients: absent, a string, or an array of strings.         *)
(***************************************************************************)
NoIngr == [k |-> "absent", s |-> "", a |-> <<>>]

StrIngr(s) == [k |-> "str", s |-> s, a |-> <<>>]

ArrIngr(L) == [k |-> "arr", s |-> "", a |-> L]

\* if (req.body.ingredients): undefined and "" are falsy, an array is truthy
IngrTruthy(x) == x.k = "arr" \/ (x.k = "str" /\ x.s # "")

\* the text JSON.parse is given: a string as it is, an array through toString
IngrText(x) == IF x.k = "arr" THEN ArrayToString(x.a) ELSE x.s

(***************************************************************************)
(* Indexed keys.  keys[i + 1] is the value of req.body["ingredients[i]"].  *)
(* Array.prototype.sort() without a comparator orders the key names by     *)
(* their UTF-16 code units; the names share the prefix "ingredients[", so  *)
(* the order is that of the decimal index followed by "]".                 *)
(***************************************************************************)
RECURSIVE Digits(_)
Digits(i) == IF i < 10 THEN <<48 + i>> ELSE Digits(i \div 10) \o <<48 + (i % 10)>>

\* the code units of the key name after the common prefix
KeySuffix(i) == Digits(i) \o <<93>>

RECURSIVE LexLess(_, _)
LexLess(a, b) ==
    IF a = <<>> THEN b # <<>>
    ELSE IF b = <<>> THEN FALSE
    ELSE IF a[1] # b[1] THEN a[1] < b[1]
    ELSE LexLess(Tail(a), Tail(b))

\* how .sort() compares the keys ingredients[i] and ingredients[j]
KeyLess(i, j) == LexLess(KeySuffix(i), KeySuffix(j))

RECURSIVE SortKeys(_)
SortKeys(S) ==
    IF S = {} THEN <<>>
    ELSE LET m == CHOOSE x \in S : \A y \in S \ {x} : KeyLess(x, y)
         IN  <<m>> \o SortKeys(S \ {m})

\* Object.keys(req.body).filter(startsWith "ingredients[").sort().map(k => req.body[k])
IndexedValues(keys) ==
    LET order == SortKeys(0..(Len(keys) - 1))
    IN  [i \in 1..Len(keys) |-> keys[order[i] + 1]]

(***************************************************************************)
(* ingredientsArray.  nested marks the array [req.body.ingredients] whose  *)
(* one element is itself the array arr.                                    *)
(***************************************************************************)
Flat(L) == [arr |-> L, nested |-> FALSE]

Wrapped(x) == IF x.k = "arr" THEN [arr |-> x.a, nested |-> TRUE] ELSE Flat(<<x.s>>)

ArrayLength(ia) == IF ia.nested THEN 1 ELSE Len(ia.arr)

\* recipes.js:227-245
CreateIngredients(body) ==
    IF IngrTruthy(body.ingredients)
    THEN LET x == body.ingredients
             p == JSONParse(IngrText(x))
         IN  IF p.r = "array" THEN Flat(p.a)
             ELSE IF p.r = "scalar" THEN Wrapped(x)
             ELSE IF x.k = "arr" THEN Flat(x.a) ELSE Flat(<<x.s>>)
    ELSE Flat(IndexedValues(body.keys))

\* recipes.js:293-303
UpdateIngredients(body) ==
    IF IngrTruthy(body.ingredients)
    THEN IF body.ingredients.k = "arr" THEN Flat(body.ingredients.a)
         ELSE Flat(<<body.ingredients.s>>)
    ELSE Flat(IndexedValues(body.keys))

\* ingredientsArray.filter(Boolean): only "" is falsy, an array is truthy
FilterBoolean(ia) ==
    IF ia.nested THEN ia ELSE Flat(SelectSeq(ia.arr, LAMBDA s : s # ""))

\* ingredientsArray.filter((i) => i.trim() !== "")
FilterTrim(ia) == Flat(SelectSeq(ia.arr, LAMBDA s : Trim(s) # ""))

\* recipes.js:247: the request is answered 400
CreateInvalid(body) ==
    \/ Falsy(body.title)
    \/ Falsy(body.instructions)
    \/ Falsy(body.category)
    \/ ArrayLength(CreateIngredients(body)) = 0

(***************************************************************************)
(* Request bodies (req.body after multer).                                 *)
(***************************************************************************)
Body(title, instructions, category, ingredients, keys, clearImage) ==
    [title |-> title, description |-> Absent, instructions |-> instructions,
     category |-> category, cookingTime |-> Absent, ingredients |-> ingredients,
     keys |-> keys, clearImage |-> clearImage]

\* the example of the specification: Pasta, Boil., Dinner, [pasta, salt] as JSON text
PastaBody == Body("Pasta", "Boil.", "Dinner", StrIngr(JsonText(<<"salt">>)), <<>>, Absent)

(***************************************************************************)
(* State.                                                                  *)
(*   store      the Recipe collection: store[id] is the document with      *)
(*              that id, NoDoc once it is deleted                          *)
(*   media      the public ids of the assets Cloudinary holds              *)
(*   inflight   the requests being handled, each between two awaits        *)
(*   last       the response sent last, with the request it answers       *)
(*   started    requests accepted so far                                   *)
(*   nextAsset  Date.now() of the next upload                              *)
(*   cloudinaryOk  CLOUDINARY_CONFIG_OK                                    *)
(*   explore    the state of the Explore page of the client                *)
(*   form       the formData of the EditRecipe page of the client          *)
(***************************************************************************)
VARIABLES store, media, inflight, last, started, nextAsset, cloudinaryOk, explore, form

vars == <<store, media, inflight, last, started, nextAsset, cloudinaryOk, explore, form>>

\* the state of the server
serverVars == <<store, media, inflight, last, started, nextAsset, cloudinaryOk>>

\* the pages of the client
clientVars == <<explore, form>>

(***************************************************************************)
(* The client pages as they are mounted (their useState and useRef         *)
(* initial values).  likesState[id] is read as likesState[id]?.liked ??    *)
(* false and ?.likesCount ?? 0 everywhere, so a missing entry is the entry *)
(* NotLiked.                                                               *)
(***************************************************************************)
RecipeIds == {1, 2}

NotLiked == [liked |-> FALSE, likesCount |-> 0]

NoTimer == [set |-> FALSE, q |-> ""]

NoResults == [set |-> FALSE, q |-> ""]

ExploreMounted ==
    [user |-> FALSE, likesState |-> [id \in RecipeIds |-> NotLiked],
     pendingToggles |-> {}, showLoginPrompt |-> FALSE, toggles |-> {},
     clicks |-> 0, clicked |-> 0, sent |-> 0,
     settled |-> [id |-> 0, ok |-> FALSE, data |-> NotLiked],
     search |-> "", timer |-> NoTimer, filteredRecipes |-> NoResults, requests |-> {}, failed |-> FALSE]

FormMounted ==
    [photoUrl |-> "", imageFile |-> FALSE, initialImageUrlWasPresent |-> FALSE,
     loaded |-> FALSE]

NoResponse == [req |-> [n |-> 0, op |-> "none"], status |-> 0]

Init ==
    /\ store = <<>>
    /\ media = {}
    /\ inflight = {}
    /\ last = NoResponse
    /\ explore = ExploreMounted
    /\ form = FormMounted
    /\ started = 0
    /\ nextAsset = 1
    /\ cloudinaryOk \in BOOLEAN

\* ids: 0 is a malformed id, Len(store) + 1 a well-formed id of no recipe
BadId == 0

\* every id a request may name
IdParams == 0..(Len(store) + 1)

\* the well-formed ones
ObjectIds == 1..(Len(store) + 1)

Exists(id) == id \in 1..Len(store) /\ store[id].exists

\* array.findIndex(x => x.equals(u)), 1-based, 0 for -1
FindIndex(arr, u) ==
    IF \E i \in 1..Len(arr) : arr[i] = u
    THEN CHOOSE i \in 1..Len(arr) : arr[i] = u /\ \A j \in 1..(i - 1) : arr[j] # u
    ELSE 0

\* array.some(x => x.equals(u)); req.user is absent for an anonymous viewer
LikedByUser(arr, u) == u # Anon /\ \E i \in 1..Len(arr) : arr[i] = u

\* array.splice(i, 1)
Splice(arr, i) == SubSeq(arr, 1, i - 1) \o SubSeq(arr, i + 1, Len(arr))

\* the request r is answered: it leaves inflight, and last is its response
\* together with the request it answers
Respond(r, resp) ==
    /\ inflight' = inflight \ {r}
    /\ last' = [req |-> r] @@ resp
    /\ UNCHANGED clientVars

\* the request r moves on to its next await
Step(r, r2) ==
    /\ inflight' = (inflight \ {r}) \cup {r2}
    /\ UNCHANGED last
    /\ UNCHANGED clientVars

Accept(cap, r) ==
    /\ started < cap
    /\ started' = started + 1
    /\ inflight' = inflight \cup {[n |-> started + 1] @@ r}
    /\ UNCHANGED clientVars

Error(status) == [status |-> status]

(***************************************************************************)
(* Media Sidecar.  multer-storage-cloudinary uploads the attached file     *)
(* before the route handler runs (upload.single("image"), recipes.js:222   *)
(* and :281) into the folder Recipedia-Images under the public id          *)
(* recipe-<Date.now()>; without the Cloudinary configuration multer keeps  *)
(* the file in memory and req.file has neither path nor secure_url.        *)
(***************************************************************************)
Folder == "Recipedia-Images"

Asset(n) == [folder |-> Folder, name |-> n]

Url(n) == [t |-> "url", folder |-> Folder, name |-> n]

\* if (recipe.image): null, undefined and "" are falsy
ImageTruthy(img) == img.t = "url"

\* recipe.image.split("/").slice(-1)[0].split(".")[0]: the file name of the
\* URL without its extension, and without the folder the asset lives in
PublicIdOf(img) == [folder |-> "", name |-> img.name]

\* cloudinary.uploader.destroy(publicId) removes the asset with that public id
Destroy(publicId) == media \ {publicId}

\* req.file after the middleware (req.file.path || req.file.secure_url)
UploadedFile(hasFile) ==
    IF hasFile /\ cloudinaryOk
    THEN [present |-> TRUE, image |-> Url(nextAsset)]
    ELSE [present |-> hasFile, image |-> UndefImage]

\* the reference is handed out but the asset is not stored
UploadNothing(hasFile) ==
    IF hasFile /\ cloudinaryOk
    THEN /\ nextAsset' = nextAsset + 1
         /\ UNCHANGED media
    ELSE UNCHANGED <<media, nextAsset>>

\* the middleware's effect on the Media Sidecar
Upload(hasFile) ==
    IF hasFile /\ cloudinaryOk
    THEN /\ media' = media \cup {Asset(nextAsset)}
         /\ nextAsset' = nextAsset + 1
    ELSE UNCHANGED <<media, nextAsset>>

(***************************************************************************)
(* POST /:id/like  (recipes.js:196-216)                                    *)
(***************************************************************************)
StartLike(cap, users, ids) ==
    \E u \in users, id \in ids :
        /\ Accept(cap, [op |-> "like", pc |-> "find", caller |-> u, id |-> id])
        /\ UNCHANGED <<store, media, last, nextAsset, cloudinaryOk>>

\* the document after recipes.js:204-208
Toggled(doc, u) ==
    IF FindIndex(doc.likedBy, u) = 0
    THEN [doc EXCEPT !.likedBy = Append(@, u)]
    ELSE [doc EXCEPT !.likedBy = Splice(@, FindIndex(doc.likedBy, u))]

\* await Recipe.findById, then the synchronous part up to recipe.save()
LikeFind(r) ==
    /\ r.op = "like" /\ r.pc = "find"
    /\ IF r.id = BadId THEN Respond(r, Error(500))
       ELSE IF ~Exists(r.id) THEN Respond(r, Error(404))
       ELSE Step(r, [r EXCEPT !.pc = "save"] @@
                    [orig |-> store[r.id], doc |-> Toggled(store[r.id], r.caller),
                     likedIndex |-> FindIndex(store[r.id].likedBy, r.caller)])
    /\ UNCHANGED <<store, media, started, nextAsset, cloudinaryOk>>

\* what save() sends for a pushed element: {$push: {likedBy: u}, $inc: {__v: 1}}
PushLikedBy(stored, u) ==
    [stored EXCEPT !.likedBy = Append(@, u), !.v = @ + 1]

\* what save() sends for a spliced array: {$set: {likedBy: arr}, $inc: {__v: 1}}
SetLikedBy(stored, arr) ==
    [stored EXCEPT !.likedBy = arr, !.v = @ + 1]

\* await recipe.save(), then res.json (recipes.js:210-211)
LikeSave(r) ==
    /\ r.op = "like" /\ r.pc = "save"
    /\ IF r.likedIndex = 0
       THEN IF Exists(r.id)
            THEN /\ store' = [store EXCEPT ![r.id] = PushLikedBy(@, r.caller)]
                 /\ Respond(r, [status |-> 200, likedByUser |-> TRUE,
                                likes |-> Len(r.doc.likedBy)])
            ELSE \* DocumentNotFoundError
                 /\ Respond(r, Error(500))
                 /\ UNCHANGED store
       ELSE IF Exists(r.id) /\ store[r.id].v = r.orig.v
            THEN /\ store' = [store EXCEPT ![r.id] = SetLikedBy(@, r.doc.likedBy)]
                 /\ Respond(r, [status |-> 200, likedByUser |-> FALSE,
                                likes |-> Len(r.doc.likedBy)])
            ELSE \* VersionError: the update is guarded by the __v that was read
                 /\ Respond(r, Error(500))
                 /\ UNCHANGED store
    /\ UNCHANGED <<media, started, nextAsset, cloudinaryOk>>

(***************************************************************************)
(* GET /:id  (recipes.js:170-190) and GET /  (recipes.js:54-75)            *)
(***************************************************************************)
StartGet(cap, viewers, ids) ==
    \E u \in viewers, id \in ids :
        /\ Accept(cap, [op |-> "get", pc |-> "find", caller |-> u, id |-> id])
        /\ UNCHANGED <<store, media, last, nextAsset, cloudinaryOk>>

\* findById without the isValid test: a malformed id is a CastError
GetFindUnvalidated(r) ==
    /\ r.op = "get" /\ r.pc = "find"
    /\ IF r.id = BadId THEN Respond(r, Error(500))
       ELSE IF ~Exists(r.id) THEN Respond(r, Error(404))
       ELSE Step(r, [r EXCEPT !.pc = "respond"] @@ [doc |-> store[r.id]])
    /\ UNCHANGED <<store, media, started, nextAsset, cloudinaryOk>>

\* the isValid test, then await Recipe.findById
GetFind(r) ==
    /\ r.op = "get" /\ r.pc = "find"
    /\ IF r.id = BadId THEN Respond(r, Error(400))
       ELSE IF ~Exists(r.id) THEN Respond(r, Error(404))
       ELSE Step(r, [r EXCEPT !.pc = "respond"] @@ [doc |-> store[r.id]])
    /\ UNCHANGED <<store, media, started, nextAsset, cloudinaryOk>>

\* likes counted without the viewer's own like
AnnotatedOthers(id, doc, u) ==
    [id |-> id, doc |-> doc, likedByUser |-> LikedByUser(doc.likedBy, u),
     likes |-> Len(SelectSeq(doc.likedBy, LAMBDA x : x # u))]

\* {...recipe.toObject(), likedByUser, likes}
Annotated(id, doc, u) ==
    [id |-> id, doc |-> doc, likedByUser |-> LikedByUser(doc.likedBy, u),
     likes |-> Len(doc.likedBy)]

GetRespond(r) ==
    /\ r.op = "get" /\ r.pc = "respond"
    /\ Respond(r, [status |-> 200, rows |-> <<Annotated(r.id, r.doc, r.caller)>>])
    /\ UNCHANGED <<store, media, started, nextAsset, cloudinaryOk>>

StartList(cap, viewers, categories) ==
    \E u \in viewers, c \in categories :
        /\ Accept(cap, [op |-> "list", pc |-> "find", caller |-> u, id |-> BadId,
                        category |-> c])
        /\ UNCHANGED <<store, media, last, nextAsset, cloudinaryOk>>

\* the category filter left out of the query
MatchingAny(category) == {id \in 1..Len(store) : store[id].exists}

\* the ids Recipe.find(query) matches
Matching(category) ==
    {id \in 1..Len(store) :
        /\ store[id].exists
        /\ (Falsy(category) \/ store[id].category = category)}

\* .sort({createdAt: -1}): ids are handed out in creation order
RECURSIVE NewestFirst(_)
NewestFirst(S) ==
    IF S = {} THEN <<>>
    ELSE LET m == CHOOSE x \in S : \A y \in S : y <= x
         IN  <<m>> \o NewestFirst(S \ {m})

ListFind(r) ==
    /\ r.op = "list" /\ r.pc = "find"
    /\ LET ids == NewestFirst(Matching(r.category))
       IN  Step(r, [r EXCEPT !.pc = "respond"] @@
                   [found |-> [i \in 1..Len(ids) |-> [id |-> ids[i], doc |-> store[ids[i]]]]])
    /\ UNCHANGED <<store, media, started, nextAsset, cloudinaryOk>>

ListRespond(r) ==
    /\ r.op = "list" /\ r.pc = "respond"
    /\ Respond(r, [status |-> 200,
                   rows |-> [i \in 1..Len(r.found) |->
                               Annotated(r.found[i].id, r.found[i].doc, r.caller)]])
    /\ UNCHANGED <<store, media, started, nextAsset, cloudinaryOk>>

(***************************************************************************)
(* POST /  (recipes.js:222-275)                                            *)
(***************************************************************************)
\* createdBy taken from the request body, which carries none
NewRecipeFromBody(body, file, u) ==
    [exists |-> TRUE, title |-> body.title, description |-> body.description,
     instructions |-> body.instructions, category |-> body.category,
     cookingTime |-> body.cookingTime,
     ingredients |-> FilterBoolean(CreateIngredients(body)).arr,
     image |-> IF file.present THEN file.image ELSE NoImage,
     createdBy |-> Absent, likedBy |-> <<>>, v |-> 0]

\* new Recipe({...}) of recipes.js:258-267
NewRecipe(body, file, u) ==
    [exists |-> TRUE, title |-> body.title, description |-> body.description,
     instructions |-> body.instructions, category |-> body.category,
     cookingTime |-> body.cookingTime,
     ingredients |-> FilterBoolean(CreateIngredients(body)).arr,
     image |-> IF file.present THEN file.image ELSE NoImage,
     createdBy |-> u, likedBy |-> <<>>, v |-> 0]

StartCreate(cap, users, bodies, files) ==
    \E u \in users, body \in bodies, hasFile \in files :
        /\ Accept(cap, [op |-> "create", pc |-> "handler", caller |-> u, id |-> BadId,
                        body |-> body, file |-> UploadedFile(hasFile)])
        /\ Upload(hasFile)
        /\ UNCHANGED <<store, last, cloudinaryOk>>

\* ingredients: [String] of the Recipe schema: an element that is an array is
\* no String, and save() rejects the document
CastFails(body) == FilterBoolean(CreateIngredients(body)).nested

\* the handler up to await recipe.save(), the insert, and the response
CreateHandler(r) ==
    /\ r.op = "create" /\ r.pc = "handler"
    /\ IF CreateInvalid(r.body)
       THEN Respond(r, Error(400)) /\ UNCHANGED store
       ELSE IF CastFails(r.body)
       THEN Respond(r, Error(500)) /\ UNCHANGED store
       ELSE /\ store' = Append(store, NewRecipe(r.body, r.file, r.caller))
            /\ Respond(r, [status |-> 201, newId |-> Len(store) + 1,
                           doc |-> NewRecipe(r.body, r.file, r.caller)])
    /\ UNCHANGED <<media, started, nextAsset, cloudinaryOk>>

(***************************************************************************)
(* Ownership check of recipes.js:286-290 and :358-362.                     *)
(***************************************************************************)
IsAdmin(u) == Email(u) = AdminEmail

IsOwner(doc, u) == doc.createdBy = u

\* the admin sentinel forgotten
AuthorizedOwnerOnly(doc, u) == IsOwner(doc, u)

Authorized(doc, u) == IsAdmin(u) \/ IsOwner(doc, u)

(***************************************************************************)
(* PUT /:id  (recipes.js:281-347)                                          *)
(***************************************************************************)
StartUpdate(cap, users, ids, bodies, files) ==
    \E u \in users, id \in ids, body \in bodies, hasFile \in files :
        /\ Accept(cap, [op |-> "update", pc |-> "find", caller |-> u, id |-> id,
                        body |-> body, file |-> UploadedFile(hasFile)])
        /\ Upload(hasFile)
        /\ UNCHANGED <<store, last, cloudinaryOk>>

\* the clear signal tested before the file
ImageCaseClearFirst(body, file) ==
    IF body.clearImage = "true" THEN "clear"
    ELSE IF file.present /\ ImageTruthy(file.image) THEN "replace" ELSE "none"

\* which branch of the image handling runs (recipes.js:308-327)
ImageCase(body, file) ==
    IF file.present
    THEN IF ImageTruthy(file.image) THEN "replace" ELSE "none"
    ELSE IF body.clearImage = "true" THEN "clear" ELSE "none"

\* recipe.image after the image handling
NewImage(doc, body, file) ==
    IF ImageCase(body, file) = "replace" THEN file.image
    ELSE IF ImageCase(body, file) = "clear" THEN EmptyImage
    ELSE doc.image

\* the old image is destroyed first
NeedsDestroy(doc, body, file) ==
    ImageCase(body, file) # "none" /\ ImageTruthy(doc.image) /\ cloudinaryOk

\* every field assigned from the request, present or not
AssignedAll(doc, body) ==
    [doc EXCEPT
       !.title = body.title,
       !.description = body.description,
       !.instructions = body.instructions,
       !.category = body.category,
       !.cookingTime = body.cookingTime,
       !.ingredients = IF ArrayLength(UpdateIngredients(body)) > 0
                       THEN FilterTrim(UpdateIngredients(body)).arr ELSE @]

\* recipes.js:330-338 on the loaded document
Assigned(doc, body) ==
    [doc EXCEPT
       !.title = IF Falsy(body.title) THEN @ ELSE body.title,
       !.description = IF Falsy(body.description) THEN @ ELSE body.description,
       !.instructions = IF Falsy(body.instructions) THEN @ ELSE body.instructions,
       !.category = IF Falsy(body.category) THEN @ ELSE body.category,
       !.cookingTime = IF Falsy(body.cookingTime) THEN @ ELSE body.cookingTime,
       !.ingredients = IF ArrayLength(UpdateIngredients(body)) > 0
                       THEN FilterTrim(UpdateIngredients(body)).arr ELSE @]

\* the document as the handler leaves it before recipe.save()
Updated(doc, body, file) ==
    Assigned([doc EXCEPT !.image = NewImage(doc, body, file)], body)

\* await Recipe.findById, the ownership check, and the handler up to its next await
UpdateFind(r) ==
    /\ r.op = "update" /\ r.pc = "find"
    /\ IF r.id = BadId THEN Respond(r, Error(500))
       ELSE IF ~Exists(r.id) THEN Respond(r, Error(404))
       ELSE IF ~Authorized(store[r.id], r.caller) THEN Respond(r, Error(401))
       ELSE Step(r, [r EXCEPT !.pc = IF NeedsDestroy(store[r.id], r.body, r.file)
                                      THEN "destroy" ELSE "save"] @@
                    [orig |-> store[r.id], doc |-> Updated(store[r.id], r.body, r.file)])
    /\ UNCHANGED <<store, media, started, nextAsset, cloudinaryOk>>

\* await cloudinary.uploader.destroy(publicId): it succeeds or rejects; the
\* replace branch catches the rejection, the clear branch does not
UpdateDestroy(r) ==
    /\ r.op = "update" /\ r.pc = "destroy"
    /\ \E ok \in BOOLEAN :
         IF ok
         THEN /\ media' = Destroy(PublicIdOf(r.orig.image))
              /\ Step(r, [r EXCEPT !.pc = "save"])
         ELSE /\ UNCHANGED media
              /\ IF ImageCase(r.body, r.file) = "replace"
                 THEN Step(r, [r EXCEPT !.pc = "save"])
                 ELSE Respond(r, Error(500))
    /\ UNCHANGED <<store, started, nextAsset, cloudinaryOk>>

\* the whole loaded document written back
SaveWhole(stored, orig, doc) == doc

\* the stored document after the update save() sends for orig -> doc
SaveDelta(stored, orig, doc) ==
    [stored EXCEPT
       !.title = IF doc.title # orig.title THEN doc.title ELSE @,
       !.description = IF doc.description # orig.description THEN doc.description ELSE @,
       !.instructions = IF doc.instructions # orig.instructions THEN doc.instructions ELSE @,
       !.category = IF doc.category # orig.category THEN doc.category ELSE @,
       !.cookingTime = IF doc.cookingTime # orig.cookingTime THEN doc.cookingTime ELSE @,
       !.image = IF doc.image # orig.image THEN doc.image ELSE @,
       !.ingredients = IF doc.ingredients # orig.ingredients THEN doc.ingredients ELSE @,
       !.v = IF doc.ingredients # orig.ingredients THEN @ + 1 ELSE @]

\* save() finds the document: an assigned array is guarded by the __v read
SaveMatches(id, orig, doc) ==
    /\ Exists(id)
    /\ (doc.ingredients # orig.ingredients => store[id].v = orig.v)

\* await recipe.save(), then res.json (recipes.js:340-341)
UpdateSave(r) ==
    /\ r.op = "update" /\ r.pc = "save"
    /\ IF SaveMatches(r.id, r.orig, r.doc)
       THEN /\ store' = [store EXCEPT ![r.id] = SaveDelta(@, r.orig, r.doc)]
            /\ Respond(r, [status |-> 200, doc |-> r.doc])
       ELSE \* VersionError or DocumentNotFoundError
            /\ Respond(r, Error(500))
            /\ UNCHANGED store
    /\ UNCHANGED <<media, started, nextAsset, cloudinaryOk>>

(***************************************************************************)
(* DELETE /:id  (recipes.js:353-377)                                       *)
(***************************************************************************)
StartDelete(cap, users, ids) ==
    \E u \in users, id \in ids :
        /\ Accept(cap, [op |-> "delete", pc |-> "find", caller |-> u, id |-> id])
        /\ UNCHANGED <<store, media, last, nextAsset, cloudinaryOk>>

DeleteFind(r) ==
    /\ r.op = "delete" /\ r.pc = "find"
    /\ IF r.id = BadId THEN Respond(r, Error(500))
       ELSE IF ~Exists(r.id) THEN Respond(r, Error(404))
       ELSE IF ~Authorized(store[r.id], r.caller) THEN Respond(r, Error(401))
       ELSE Step(r, [r EXCEPT !.pc = IF ImageTruthy(store[r.id].image) /\ cloudinaryOk
                                      THEN "destroy" ELSE "remove"] @@
                    [orig |-> store[r.id]])
    /\ UNCHANGED <<store, media, started, nextAsset, cloudinaryOk>>

\* await cloudinary.uploader.destroy(publicId): a rejection ends the request
DeleteDestroy(r) ==
    /\ r.op = "delete" /\ r.pc = "destroy"
    /\ \E ok \in BOOLEAN :
         IF ok
         THEN /\ media' = Destroy(PublicIdOf(r.orig.image))
              /\ Step(r, [r EXCEPT !.pc = "remove"])
         ELSE /\ UNCHANGED media
              /\ Respond(r, Error(500))
    /\ UNCHANGED <<store, started, nextAsset, cloudinaryOk>>

\* the success response sent without the record being removed
DeleteRemoveKeeps(r) ==
    /\ r.op = "delete" /\ r.pc = "remove"
    /\ Respond(r, [status |-> 200])
    /\ UNCHANGED <<store, media, started, nextAsset, cloudinaryOk>>

\* await recipe.deleteOne(), then res.json
DeleteRemove(r) ==
    /\ r.op = "delete" /\ r.pc = "remove"
    /\ store' = [store EXCEPT ![r.id] = NoDoc]
    /\ Respond(r, [status |-> 200])
    /\ UNCHANGED <<media, started, nextAsset, cloudinaryOk>>

(***************************************************************************)
(* The server model: every route, from an empty store, the requests        *)
(* interleaved at their awaits.                                            *)
(***************************************************************************)
\* an update of the title and the ingredients
RenameBody == Body("Risotto", Absent, Absent, ArrIngr(<<"salt", " ">>), <<>>, Absent)

\* an update that clears the image
ClearBody == Body(Absent, Absent, Absent, NoIngr, <<>>, "true")

Creators == {"u1", "u2"}

Next ==
    \/ StartCreate(MaxReq, Creators, {PastaBody}, BOOLEAN)
    \/ StartUpdate(MaxReq, Users, ObjectIds, {RenameBody, ClearBody}, BOOLEAN)
    \/ StartDelete(MaxReq, Users, ObjectIds)
    \/ StartLike(MaxReq, {"u2"}, ObjectIds)
    \/ \E r \in inflight : CreateHandler(r)
    \/ \E r \in inflight : UpdateFind(r)
    \/ \E r \in inflight : UpdateDestroy(r)
    \/ \E r \in inflight : UpdateSave(r)
    \/ \E r \in inflight : DeleteFind(r)
    \/ \E r \in inflight : DeleteDestroy(r)
    \/ \E r \in inflight : DeleteRemove(r)
    \/ \E r \in inflight : LikeFind(r)
    \/ \E r \in inflight : LikeSave(r)

Spec == Init /\ [][Next]_vars

(***************************************************************************)
(* The like model starts from the store that holds the example recipe,     *)
(* created by u1 without an image (the state Spec reaches by that create   *)
(* request), and interleaves like toggles.  The read model starts after    *)
(* u1 and u2 have liked that recipe, and interleaves toggles with reads.   *)
(***************************************************************************)
PastaRecipe == NewRecipe(PastaBody, [present |-> FALSE, image |-> UndefImage], "u1")

InitPasta ==
    /\ store = <<PastaRecipe>>
    /\ media = {}
    /\ inflight = {}
    /\ last = NoResponse
    /\ explore = ExploreMounted
    /\ form = FormMounted
    /\ started = 0
    /\ nextAsset = 1
    /\ cloudinaryOk = TRUE

Likers == {"u1", "u2"}

NextLike ==
    \/ StartLike(MaxLikeReq, Likers, IdParams)
    \/ \E r \in inflight : LikeFind(r)
    \/ \E r \in inflight : LikeSave(r)

SpecLike == InitPasta /\ [][NextLike]_vars

NextRead ==
    \/ StartLike(MaxReadReq, Likers, ObjectIds)
    \/ StartGet(MaxReadReq, {"u1", Anon}, IdParams)
    \/ StartList(MaxReadReq, {"u1", Anon}, {Absent, "Soup"})
    \/ \E r \in inflight : LikeFind(r)
    \/ \E r \in inflight : LikeSave(r)
    \/ \E r \in inflight : GetFind(r)
    \/ \E r \in inflight : GetRespond(r)
    \/ \E r \in inflight : ListFind(r)
    \/ \E r \in inflight : ListRespond(r)

\* the example recipe after u1 and u2 have each liked it
InitLiked ==
    /\ store = <<PushLikedBy(PushLikedBy(PastaRecipe, "u1"), "u2")>>
    /\ media = {}
    /\ inflight = {}
    /\ last = NoResponse
    /\ explore = ExploreMounted
    /\ form = FormMounted
    /\ started = 0
    /\ nextAsset = 1
    /\ cloudinaryOk = TRUE

SpecRead == InitLiked /\ [][NextRead]_vars

(***************************************************************************)
(* The create model: one create request of u1, its body drawn from every   *)
(* encoding of every list of Lists and every scalar of Strs, with and      *)
(* without the other required fields, handled on the empty store.          *)
(***************************************************************************)
\* req.body.ingredients and the indexed keys of one request
Encodings ==
    {<<StrIngr(JsonText(L)), <<>>>> : L \in Lists}
      \cup {<<ArrIngr(L), <<>>>> : L \in Lists}
      \cup {<<NoIngr, L>> : L \in Lists}
      \cup {<<StrIngr(s), <<>>>> : s \in Strs}

CreateInputs ==
    {Body(t, i, c, e[1], e[2], Absent) :
        t \in {"Pasta", Absent}, i \in {"Boil.", ""}, c \in {"Dinner", Absent},
        e \in Encodings}

InitCreate ==
    /\ store = <<>>
    /\ media = {}
    /\ \E body \in CreateInputs :
         inflight = {[n |-> 1, op |-> "create", pc |-> "handler", caller |-> "u1",
                      id |-> BadId, body |-> body,
                      file |-> [present |-> FALSE, image |-> UndefImage]]}
    /\ last = NoResponse
    /\ explore = ExploreMounted
    /\ form = FormMounted
    /\ started = 1
    /\ nextAsset = 1
    /\ cloudinaryOk = TRUE

NextCreate == \E r \in inflight : CreateHandler(r)

SpecCreate == InitCreate /\ [][NextCreate]_vars

(***************************************************************************)
(* Vocabulary of the properties.                                           *)
(***************************************************************************)
\* how often u occurs in arr
Count(arr, u) == Cardinality({i \in 1..Len(arr) : arr[i] = u})

Member(arr, u) == Count(arr, u) > 0

\* the request r is answered in this step
Answers(r) == r \in inflight /\ \A q \in inflight' : q.n # r.n

\* the request r saves its like toggle in this step, and no request has
\* written the recipe's likedBy since r read it
SavesToggleAlone(r) ==
    /\ r \in inflight /\ r.op = "like" /\ r.pc = "save"
    /\ Answers(r)
    /\ Exists(r.id) /\ store[r.id].v = r.orig.v

(***************************************************************************)
(* C1: in every reachable state no recipe's likedBy holds a user id twice, *)
(* also when two toggles of one user on one recipe interleave.             *)
(***************************************************************************)
C1_NoDuplicateLikes ==
    \A id \in 1..Len(store) :
        store[id].exists => \A u \in Users : Count(store[id].likedBy, u) <= 1

(***************************************************************************)
(* C2: a like toggle of caller U on an existing recipe removes U from      *)
(* likedBy if U was a member and adds U otherwise, leaves every other      *)
(* member in place, and answers with U's membership and the size of        *)
(* likedBy after the change; on an absent recipe it answers 404 and        *)
(* changes nothing.                                                        *)
(***************************************************************************)
C2_ToggleContract ==
    [][\A r \in inflight :
         /\ SavesToggleAlone(r) =>
              LET before == store[r.id].likedBy
                  after == store'[r.id].likedBy
              IN  /\ last'.status = 200
                  /\ Member(after, r.caller) = ~Member(before, r.caller)
                  /\ \A w \in Users \ {r.caller} : Count(after, w) = Count(before, w)
                  /\ last'.likedByUser = Member(after, r.caller)
                  /\ last'.likes = Len(after)
         /\ (r.op = "like" /\ r.pc = "find" /\ r.id # BadId /\ ~Exists(r.id) /\ Answers(r))
              => last'.status = 404 /\ store' = store
      ]_vars

(***************************************************************************)
(* C3: two like toggles of one user on one recipe, one after the other     *)
(* with no other request on that recipe in between, leave likedBy, and the *)
(* likedByUser and likes reported for that user, as they were before the   *)
(* first.  last is the first toggle's response, r the second toggle: the   *)
(* recipe's __v shows that nothing but the first toggle wrote in between.  *)
(***************************************************************************)
C3_ToggleTwice ==
    [][\A r \in inflight :
         ( /\ SavesToggleAlone(r)
           /\ last.req.op = "like" /\ last.status = 200
           /\ last.req.caller = r.caller /\ last.req.id = r.id
           /\ r.orig.v = last.req.orig.v + 1 )
         => LET original == last.req.orig.likedBy
                after == store'[r.id].likedBy
            IN  /\ \A w \in Users : Count(after, w) = Count(original, w)
                /\ last'.status = 200
                /\ last'.likedByUser = Member(original, r.caller)
                /\ last'.likes = Len(original)
      ]_vars

(***************************************************************************)
(* C4 as claimed: in every response that carries likes (a read's rows, a   *)
(* like toggle's answer) likes is the number of ids in the recipe's stored *)
(* likedBy at the moment the response is sent, also while other toggles    *)
(* are in flight.                                                          *)
(***************************************************************************)
C4_LikesAtResponseTime ==
    [][\A r \in inflight :
         (Answers(r) /\ last'.status = 200) =>
            /\ r.op = "like" => last'.likes = Len(store'[r.id].likedBy)
            /\ r.op \in {"get", "list"} =>
                 \A i \in 1..Len(last'.rows) :
                     last'.rows[i].likes = Len(store'[last'.rows[i].id].likedBy)
      ]_vars

(***************************************************************************)
(* C4 as amended: likes is the number of ids in the recipe's stored        *)
(* likedBy at the moment the response is sent whenever no other request    *)
(* has written that likedBy between this request's read of the recipe and  *)
(* its response (the recipe's __v is the one the request read, plus its    *)
(* own write for a toggle).                                                *)
(***************************************************************************)
C4_LikesUnlessOverwritten ==
    [][\A r \in inflight :
         (Answers(r) /\ last'.status = 200) =>
            /\ (r.op = "like" /\ store[r.id].v = r.orig.v)
                 => last'.likes = Len(store'[r.id].likedBy)
            /\ r.op \in {"get", "list"} =>
                 \A i \in 1..Len(last'.rows) :
                     last'.rows[i].doc.v = store'[last'.rows[i].id].v
                       => last'.rows[i].likes = Len(store'[last'.rows[i].id].likedBy)
      ]_vars

\* a read answers likes 1 while a like toggle is between its read and its save
C4_Witness ==
    /\ last.req.op = "get" /\ last.status = 200
    /\ last.rows[1].likes = 1
    /\ \E q \in inflight : q.op = "like" /\ q.pc = "save"

(***************************************************************************)
(* C5: for an authenticated caller and an existing recipe, PUT /:id and    *)
(* DELETE /:id answer 401 exactly when the caller's id differs from the    *)
(* recipe's createdBy and the caller's email is not the admin sentinel.    *)
(* r is an update or delete request whose findById finds the recipe.       *)
(***************************************************************************)
ChecksOwnership(r) ==
    /\ r \in inflight /\ r.op \in {"update", "delete"} /\ r.pc = "find"
    /\ r \notin inflight'
    /\ Exists(r.id)

Rejected401(r) == Answers(r) /\ last'.status = 401

C5_OwnerOrAdmin ==
    [][\A r \in inflight :
         ChecksOwnership(r) =>
            (Rejected401(r) <=>
               (store[r.id].createdBy # r.caller /\ Email(r.caller) # "admin@gmail.com"))
      ]_vars

\* the admin's delete of a recipe created by another user has passed the check
C5_Witness ==
    \E r \in inflight :
        /\ r.op = "delete" /\ r.pc \in {"destroy", "remove"}
        /\ Email(r.caller) = "admin@gmail.com"
        /\ r.orig.createdBy # r.caller

(***************************************************************************)
(* C6: when an update or delete request ends with 404 or 401 it has        *)
(* mutated nothing: its answer leaves store and media as they are, and     *)
(* the Media Sidecar does not hold the file attached to a rejected update  *)
(* (the asset recipe-<name> of req.file, which it did not hold before the  *)
(* request).                                                               *)
(***************************************************************************)
C6_RejectedMutatesNothing ==
    [][\A r \in inflight :
         ( /\ r.op \in {"update", "delete"}
           /\ Answers(r)
           /\ last'.status \in {401, 404} )
         => /\ store' = store
            /\ media' = media
            /\ r.op = "update" =>
                 ~(r.file.present /\ Asset(r.file.image.name) \in media')
      ]_vars

(***************************************************************************)
(* C10: a recipe's createdBy is the caller of the create request that      *)
(* persisted it, and no later step of any request changes it.              *)
(***************************************************************************)
C10_CreatedByFixed ==
    [][/\ \A id \in 1..Len(store) :
            (store[id].exists /\ store'[id].exists)
               => store'[id].createdBy = store[id].createdBy
       /\ \A r \in inflight :
            (r.op = "create" /\ Answers(r) /\ last'.status = 201)
               => /\ Len(store') = Len(store) + 1
                  /\ store'[Len(store')].createdBy = r.caller
      ]_vars

\* the admin has updated a recipe of u1, which is still u1's
C10_Witness ==
    /\ last.req.op = "update" /\ last.status = 200
    /\ last.req.caller = "root"
    /\ Exists(last.req.id)
    /\ store[last.req.id].createdBy = "u1"
    /\ store[last.req.id].title = "Risotto"

(***************************************************************************)
(* The list a create body encodes, and that list without its empty         *)
(* strings.                                                                *)
(***************************************************************************)
SentList(body) ==
    IF body.ingredients.k = "arr" THEN body.ingredients.a
    ELSE IF body.ingredients.k = "str"
    THEN IF body.ingredients.s \in JsonTexts
         THEN CHOOSE L \in Lists : JsonText(L) = body.ingredients.s
         ELSE <<body.ingredients.s>>
    ELSE body.keys

NonEmpty(L) == SelectSeq(L, LAMBDA x : x # "")

HasRequiredScalars(body) ==
    ~Falsy(body.title) /\ ~Falsy(body.instructions) /\ ~Falsy(body.category)

\* the create request has been answered
Created == last.req.op = "create" /\ last.status # 0

(***************************************************************************)
(* C7: for every list L, a create with L sent as JSON text, as an array,   *)
(* as indexed keys or (one element) as a scalar persists the elements of   *)
(* L in order without the blank ones (read here as the empty strings, the  *)
(* ones the handler filters).                                              *)
(***************************************************************************)
C7_EncodingsAgree ==
    ( /\ Created
      /\ HasRequiredScalars(last.req.body)
      /\ NonEmpty(SentList(last.req.body)) # <<>> )
    => /\ last.status = 201
       /\ store[last.newId].ingredients = NonEmpty(SentList(last.req.body))

(***************************************************************************)
(* C8: ingredients sent as indexed keys ingredients[0..n-1] are stored in  *)
(* increasing index order, for every n, also n greater than 10.            *)
(***************************************************************************)
C8_IndexOrder ==
    ( /\ Created /\ last.status = 201
      /\ ~IngrTruthy(last.req.body.ingredients) )
    => store[last.newId].ingredients = NonEmpty(last.req.body.keys)

(***************************************************************************)
(* C9: a create that lacks title, instructions or category, or whose       *)
(* ingredients hold no non-empty string, is answered 400 and persists      *)
(* nothing; every persisted recipe has an ingredient and no empty one.     *)
(***************************************************************************)
C9_CreateValidates ==
    /\ ( /\ Created
         /\ \/ ~HasRequiredScalars(last.req.body)
            \/ NonEmpty(SentList(last.req.body)) = <<>> )
       => (last.status = 400 /\ store = <<>>)
    /\ \A id \in 1..Len(store) :
         store[id].exists =>
            /\ Len(store[id].ingredients) >= 1
            /\ \A i \in 1..Len(store[id].ingredients) : store[id].ingredients[i] # ""

(***************************************************************************)
(* The payload model: one ingredients payload, drawn from every encoding   *)
(* of Encodings, is sent twice: in a create request of u1 and in an update *)
(* request of u1 on the example recipe.  The two requests interleave.      *)
(***************************************************************************)
NoFile == [present |-> FALSE, image |-> UndefImage]

InitPayload ==
    /\ store = <<PastaRecipe>>
    /\ media = {}
    /\ \E e \in Encodings :
         inflight =
           {[n |-> 1, op |-> "create", pc |-> "handler", caller |-> "u1", id |-> BadId,
             body |-> Body("Pasta", "Boil.", "Dinner", e[1], e[2], Absent),
             file |-> NoFile],
            [n |-> 2, op |-> "update", pc |-> "find", caller |-> "u1", id |-> 1,
             body |-> Body(Absent, Absent, Absent, e[1], e[2], Absent),
             file |-> NoFile]}
    /\ last = NoResponse
    /\ explore = ExploreMounted
    /\ form = FormMounted
    /\ started = 2
    /\ nextAsset = 1
    /\ cloudinaryOk = TRUE

NextPayload ==
    \/ \E r \in inflight : CreateHandler(r)
    \/ \E r \in inflight : UpdateFind(r)
    \/ \E r \in inflight : UpdateSave(r)

SpecPayload == InitPayload /\ [][NextPayload]_vars

\* the update request r is answered 200 in this step
UpdateSucceeds(r) ==
    r \in inflight /\ r.op = "update" /\ Answers(r) /\ last'.status = 200

\* the request carries neither an ingredients key nor an indexed key
NoIngredientsSent(body) == body.ingredients.k = "absent" /\ body.keys = <<>>

\* the ingredients key is present and holds blank strings only
OnlyBlanksSent(body) ==
    \/ /\ body.ingredients.k = "arr"
       /\ body.ingredients.a # <<>>
       /\ \A i \in 1..Len(body.ingredients.a) : Trim(body.ingredients.a[i]) = ""
    \/ /\ body.ingredients.k = "str"
       /\ Trim(body.ingredients.s) = ""

(***************************************************************************)
(* C11: a successful update without an ingredients key and without         *)
(* indexed keys leaves the stored ingredients as they are; a successful    *)
(* update whose ingredients key holds blank strings only (an array of      *)
(* blanks, or one blank string) replaces the stored ingredients by the     *)
(* filtered sequence, which is empty.                                      *)
(***************************************************************************)
C11_AbsentKeepsBlankClears ==
    [][\A r \in inflight :
         UpdateSucceeds(r) =>
            /\ NoIngredientsSent(r.body)
                 => store'[r.id].ingredients = store[r.id].ingredients
            /\ OnlyBlanksSent(r.body) => store'[r.id].ingredients = <<>>
      ]_vars

(***************************************************************************)
(* C12: when a create persists the payload as the sequence S, the update   *)
(* carrying the same payload stores S: once both requests are answered,    *)
(* the created recipe and the updated recipe hold the same ingredients.    *)
(***************************************************************************)
C12_UpdateNormalizesAsCreate ==
    (inflight = {} /\ Len(store) = 2)
       => store[1].ingredients = store[2].ingredients

(***************************************************************************)
(* The update model: one update request on the example recipe, of its      *)
(* owner or of the admin, its scalar fields, its clearImage signal and its *)
(* file drawn from the sets below, interleaved with a like of u2 on the    *)
(* same recipe.  The store holds a second recipe, of u2.  With Cloudinary  *)
(* configured the example recipe may have been created with an image.      *)
(***************************************************************************)
UpdateInputs ==
    {[Body(t, i, c, g, <<>>, x) EXCEPT !.description = d, !.cookingTime = k] :
        t \in {Absent, "", "Risotto"}, d \in {Absent, "Creamy"},
        i \in {Absent, "Stir."}, c \in {Absent, "Soup"}, k \in {Absent, "20"},
        g \in {NoIngr, StrIngr("7")}, x \in {Absent, "true", "false"}}

\* the example recipe created with the image file recipe-1 attached
PastaWithImage == NewRecipe(PastaBody, [present |-> TRUE, image |-> Url(1)], "u1")

SoupRecipe ==
    NewRecipe(Body("Broth", "Simmer.", "Soup", StrIngr("7"), <<>>, Absent), NoFile, "u2")

InitUpdate ==
    /\ cloudinaryOk \in BOOLEAN
    /\ \E withImage \in {FALSE, cloudinaryOk}, hasFile \in BOOLEAN,
          u \in {"u1", "root"}, body \in UpdateInputs :
         /\ store = <<IF withImage THEN PastaWithImage ELSE PastaRecipe, SoupRecipe>>
         /\ media = (IF withImage THEN {Asset(1)} ELSE {})
                      \cup (IF hasFile /\ cloudinaryOk THEN {Asset(2)} ELSE {})
         /\ nextAsset = IF hasFile /\ cloudinaryOk THEN 3 ELSE 2
         /\ inflight =
              {[n |-> 1, op |-> "update", pc |-> "find", caller |-> u, id |-> 1,
                body |-> body,
                file |-> IF hasFile /\ cloudinaryOk
                         THEN [present |-> TRUE, image |-> Url(2)]
                         ELSE [present |-> hasFile, image |-> UndefImage]],
               [n |-> 2, op |-> "like", pc |-> "find", caller |-> "u2", id |-> 1]}
    /\ last = NoResponse
    /\ explore = ExploreMounted
    /\ form = FormMounted
    /\ started = 2

NextUpdate ==
    \/ \E r \in inflight : UpdateFind(r)
    \/ \E r \in inflight : UpdateDestroy(r)
    \/ \E r \in inflight : UpdateSave(r)
    \/ \E r \in inflight : LikeFind(r)
    \/ \E r \in inflight : LikeSave(r)

SpecUpdate == InitUpdate /\ [][NextUpdate]_vars

ScalarFields == {"title", "description", "instructions", "category", "cookingTime"}

(***************************************************************************)
(* C13: a successful update keeps the stored value of each of title,       *)
(* description, instructions, category and cookingTime that is absent from *)
(* the request, keeps the recipe under its id with its likedBy and its     *)
(* createdBy, and changes no other recipe.                                 *)
(***************************************************************************)
C13_AbsentFieldsKept ==
    [][\A r \in inflight :
         UpdateSucceeds(r) =>
            /\ \A f \in ScalarFields :
                 r.body[f] = Absent => store'[r.id][f] = store[r.id][f]
            /\ Len(store') = Len(store)
            /\ store'[r.id].exists
            /\ store'[r.id].likedBy = store[r.id].likedBy
            /\ store'[r.id].createdBy = store[r.id].createdBy
            /\ \A j \in 1..Len(store) : j # r.id => store'[j] = store[j]
      ]_vars

\* an update without a title has set the description, after u2's like was saved
C13_Witness ==
    /\ last.req.op = "update" /\ last.status = 200
    /\ last.req.body.title = Absent /\ last.req.body.description = "Creamy"
    /\ store[1].title = "Pasta" /\ store[1].description = "Creamy"
    /\ store[1].likedBy = <<"u2">>

(***************************************************************************)
(* C14 as claimed: after a successful update the stored image is the       *)
(* newly uploaded reference if a file was attached (also with clearImage   *)
(* "true"), empty if no file was attached and clearImage is "true", and    *)
(* the previous value if neither was sent.                                 *)
(***************************************************************************)
C14_ImageAfterUpdate ==
    [][\A r \in inflight :
         UpdateSucceeds(r) =>
            /\ r.file.present =>
                 (ImageTruthy(store'[r.id].image) /\ store'[r.id].image = r.file.image)
            /\ (~r.file.present /\ r.body.clearImage = "true")
                 => store'[r.id].image = EmptyImage
            /\ (~r.file.present /\ r.body.clearImage # "true")
                 => store'[r.id].image = store[r.id].image
      ]_vars

(***************************************************************************)
(* C14 as amended: the stored image is the uploaded reference if a file    *)
(* was attached and the upload returned a reference; the previous value if *)
(* a file was attached and the upload returned none (Cloudinary is not     *)
(* configured), also with clearImage "true"; empty if no file was attached *)
(* and clearImage is "true"; the previous value if neither was sent.       *)
(***************************************************************************)
C14_ImageAfterUpload ==
    [][\A r \in inflight :
         UpdateSucceeds(r) =>
            /\ (r.file.present /\ ImageTruthy(r.file.image))
                 => store'[r.id].image = r.file.image
            /\ (r.file.present /\ ~ImageTruthy(r.file.image))
                 => store'[r.id].image = store[r.id].image
            /\ (~r.file.present /\ r.body.clearImage = "true")
                 => store'[r.id].image = EmptyImage
            /\ (~r.file.present /\ r.body.clearImage # "true")
                 => store'[r.id].image = store[r.id].image
      ]_vars

\* an update with both a file and clearImage "true" has stored the file's reference
C14_Witness ==
    /\ last.req.op = "update" /\ last.status = 200
    /\ last.req.file.present /\ last.req.body.clearImage = "true"
    /\ ImageTruthy(last.req.file.image)
    /\ store[1].image = last.req.file.image

(***************************************************************************)
(* C15: a failing Media Sidecar delete never keeps the primary operation   *)
(* from succeeding: an update with a replacement file, an update with      *)
(* clearImage "true" and a delete of a recipe with an image, each waiting  *)
(* for cloudinary.uploader.destroy, go on to their save or remove whatever *)
(* the outcome of the destroy; none is answered with an error there.       *)
(***************************************************************************)
C15_DestroyFailureSwallowed ==
    [][\A r \in inflight :
         (r.op \in {"update", "delete"} /\ r.pc = "destroy" /\ r \notin inflight')
            => \E q \in inflight' :
                  q.n = r.n /\ q.pc = (IF r.op = "update" THEN "save" ELSE "remove")
      ]_vars

(***************************************************************************)
(* The delete model: deletes, updates, likes and reads of the example      *)
(* recipe (created without an image), by its owner u1, the admin and u2,   *)
(* interleaved at their awaits.                                            *)
(***************************************************************************)
SeedIds == {1}

NextDelete ==
    \/ StartDelete(MaxDelReq, Users, SeedIds)
    \/ StartUpdate(MaxDelReq, {"u1", "u2"}, SeedIds, {RenameBody}, {FALSE})
    \/ StartLike(MaxDelReq, {"u2"}, SeedIds)
    \/ StartGet(MaxDelReq, {Anon, "u1"}, SeedIds)
    \/ \E r \in inflight : DeleteFind(r)
    \/ \E r \in inflight : DeleteRemove(r)
    \/ \E r \in inflight : UpdateFind(r)
    \/ \E r \in inflight : UpdateSave(r)
    \/ \E r \in inflight : LikeFind(r)
    \/ \E r \in inflight : LikeSave(r)
    \/ \E r \in inflight : GetFind(r)
    \/ \E r \in inflight : GetRespond(r)

SpecDelete == InitPasta /\ [][NextDelete]_vars

\* the id names a recipe that was deleted
Deleted(id) == id \in 1..Len(store) /\ ~store[id].exists

(***************************************************************************)
(* C16: a DELETE /:id answered with success leaves the recipe absent from  *)
(* the store, it stays absent, and every delete, update, like or get whose *)
(* lookup of that id comes later is answered 404 and changes nothing.      *)
(***************************************************************************)
C16_DeletedStaysNotFound ==
    [][/\ \A r \in inflight :
            (r.op = "delete" /\ Answers(r) /\ last'.status = 200)
               => Deleted(r.id)'
       /\ \A id \in 1..Len(store) : Deleted(id) => Deleted(id)'
       /\ \A r \in inflight :
            ( /\ r.op \in {"delete", "update", "like", "get"}
              /\ r.pc = "find" /\ Deleted(r.id) /\ r \notin inflight' )
            => (Answers(r) /\ last'.status = 404 /\ store' = store)
      ]_vars

\* a like of the deleted recipe has been answered 404
C16_Witness ==
    /\ last.req.op = "like" /\ last.status = 404
    /\ Deleted(last.req.id)

(***************************************************************************)
(* C17: GET /:id answers 400 for a malformed id whatever the store holds,  *)
(* 404 for a well-formed id of no recipe, and otherwise returns the recipe *)
(* it read, with likedByUser true exactly when the viewer is authenticated *)
(* and its id is in that recipe's likedBy.                                 *)
(***************************************************************************)
C17_GetById ==
    [][\A r \in inflight :
         r.op = "get" =>
            /\ (r.pc = "find" /\ r \notin inflight') =>
                 IF r.id = BadId THEN Answers(r) /\ last'.status = 400
                 ELSE IF ~Exists(r.id) THEN Answers(r) /\ last'.status = 404
                 ELSE \E q \in inflight' : q.n = r.n /\ q.doc = store[r.id]
            /\ (r.pc = "respond" /\ r \notin inflight') =>
                 /\ Answers(r) /\ last'.status = 200
                 /\ last'.rows[1].id = r.id /\ last'.rows[1].doc = r.doc
                 /\ last'.rows[1].likedByUser =
                      (r.caller # Anon /\ Member(r.doc.likedBy, r.caller))
      ]_vars

\* u1, who likes the example recipe, has read it
C17_Witness ==
    /\ last.req.op = "get" /\ last.status = 200
    /\ last.req.caller = "u1"
    /\ last.rows[1].likedByUser

(***************************************************************************)
(* GET /search/query  (recipes.js:81-99).  The query string becomes the    *)
(* source of a regular expression: new RegExp(q, "i").  Strings are        *)
(* sequences of characters here; the patterns of the model are built from  *)
(* literal characters, "." (any character), "*" (the preceding atom zero   *)
(* or more times) and the openers "(" and "[", which are never closed.     *)
(***************************************************************************)
Chars(s) ==
    CASE s = "Pasta" -> <<"P", "a", "s", "t", "a">>
      [] s = "Broth" -> <<"B", "r", "o", "t", "h">>
      [] s = "Salad" -> <<"S", "a", "l", "a", "d">>
      [] OTHER -> <<>>

\* the "i" flag: characters are compared after case folding
Lower(c) ==
    CASE c = "A" -> "a" [] c = "B" -> "b" [] c = "P" -> "p" [] c = "S" -> "s"
      [] OTHER -> c

\* new RegExp(q, "i") throws a SyntaxError: an unterminated group or class,
\* or a quantifier with nothing to repeat
RegExpThrows(p) ==
    \E i \in 1..Len(p) :
        \/ p[i] \in {"(", "["}
        \/ p[i] = "*" /\ (i = 1 \/ p[i - 1] = "*")

\* one pattern atom against one character
AtomMatches(a, c) == a = "." \/ Lower(a) = Lower(c)

\* the pattern p matches a prefix of s
RECURSIVE MatchHere(_, _)
MatchHere(p, s) ==
    IF p = <<>> THEN TRUE
    ELSE IF Len(p) >= 2 /\ p[2] = "*"
    THEN \/ MatchHere(Tail(Tail(p)), s)
         \/ s # <<>> /\ AtomMatches(p[1], s[1]) /\ MatchHere(p, Tail(s))
    ELSE s # <<>> /\ AtomMatches(p[1], s[1]) /\ MatchHere(Tail(p), Tail(s))

\* regex.test(s): the pattern matches somewhere in s
RegExpTest(p, s) == \E i \in 0..Len(s) : MatchHere(p, SubSeq(s, i + 1, Len(s)))

\* req.query.q: absent, or a string
NoQuery == [given |-> FALSE, s |-> <<>>]

Query(s) == [given |-> TRUE, s |-> s]

\* the pattern of new RegExp(q): new RegExp(undefined) is the empty pattern
Pattern(q) == IF q.given THEN q.s ELSE <<>>

StartSearch(cap, viewers, queries) ==
    \E u \in viewers, q \in queries :
        /\ Accept(cap, [op |-> "search", pc |-> "find", caller |-> u, id |-> BadId,
                        q |-> q])
        /\ UNCHANGED <<store, media, last, nextAsset, cloudinaryOk>>

\* the ids Recipe.find({title: regex}) matches
TitleMatching(q) ==
    {id \in 1..Len(store) :
        store[id].exists /\ RegExpTest(Pattern(q), Chars(store[id].title))}

\* find() without a sort: the documents in the order they were inserted
RECURSIVE OldestFirst(_)
OldestFirst(S) ==
    IF S = {} THEN <<>>
    ELSE LET m == CHOOSE x \in S : \A y \in S : x <= y
         IN  <<m>> \o OldestFirst(S \ {m})

\* new RegExp(q, "i"), then await Recipe.find
SearchFind(r) ==
    /\ r.op = "search" /\ r.pc = "find"
    /\ IF RegExpThrows(Pattern(r.q))
       THEN Respond(r, Error(500))
       ELSE LET ids == OldestFirst(TitleMatching(r.q))
            IN  Step(r, [r EXCEPT !.pc = "respond"] @@
                        [found |-> [i \in 1..Len(ids) |->
                                      [id |-> ids[i], doc |-> store[ids[i]]]]])
    /\ UNCHANGED <<store, media, started, nextAsset, cloudinaryOk>>

SearchRespond(r) ==
    /\ r.op = "search" /\ r.pc = "respond"
    /\ Respond(r, [status |-> 200,
                   rows |-> [i \in 1..Len(r.found) |->
                               Annotated(r.found[i].id, r.found[i].doc, r.caller)]])
    /\ UNCHANGED <<store, media, started, nextAsset, cloudinaryOk>>

(***************************************************************************)
(* The catalog model: three recipes (Pasta and Salad of category Dinner,   *)
(* Broth of category Soup; u1 likes Pasta), listed and searched by u1 and  *)
(* by an anonymous viewer while the admin may delete Broth.                *)
(***************************************************************************)
SaladRecipe ==
    NewRecipe(Body("Salad", "Toss.", "Dinner", StrIngr("7"), <<>>, Absent), NoFile, "u2")

Categories == {Absent, "", "Soup", "Dinner", "Lunch"}

Queries ==
    {NoQuery, Query(<<"a", "s">>), Query(<<"A", "S">>), Query(<<"a", ".", "t">>),
     Query(<<"s", "*", "t">>), Query(<<"(">>), Query(<<"z">>)}

InitCatalog ==
    /\ store = <<PushLikedBy(PastaRecipe, "u1"), SoupRecipe, SaladRecipe>>
    /\ media = {}
    /\ inflight = {}
    /\ last = NoResponse
    /\ explore = ExploreMounted
    /\ form = FormMounted
    /\ started = 0
    /\ nextAsset = 1
    /\ cloudinaryOk = TRUE

NextCatalog ==
    \/ StartList(MaxCatReq, {"u1", Anon}, Categories)
    \/ StartSearch(MaxCatReq, {"u1", Anon}, Queries)
    \/ StartDelete(MaxCatReq, {"root"}, {2})
    \/ \E r \in inflight : ListFind(r)
    \/ \E r \in inflight : ListRespond(r)
    \/ \E r \in inflight : SearchFind(r)
    \/ \E r \in inflight : SearchRespond(r)
    \/ \E r \in inflight : DeleteFind(r)
    \/ \E r \in inflight : DeleteRemove(r)

SpecCatalog == InitCatalog /\ [][NextCatalog]_vars

\* the ids of the documents a query returned
FoundIds(found) == {found[i].id : i \in 1..Len(found)}

(***************************************************************************)
(* C18: GET / finds exactly the stored recipes whose category is the       *)
(* category parameter, all stored recipes when none is given, newest       *)
(* first, and answers with one row per recipe found, in that order, whose  *)
(* likedByUser is the viewer's membership in the recipe's likedBy and      *)
(* false when the request has no user.                                     *)
(***************************************************************************)
C18_ListByCategory ==
    [][\A r \in inflight :
         r.op = "list" =>
            /\ (r.pc = "find" /\ r \notin inflight') =>
                 \E q \in inflight' :
                    /\ q.n = r.n
                    /\ FoundIds(q.found) =
                         {id \in 1..Len(store) :
                            /\ store[id].exists
                            /\ (r.category \in {Absent, ""}
                                  \/ store[id].category = r.category)}
                    /\ \A i, j \in 1..Len(q.found) :
                          i < j => q.found[i].id > q.found[j].id
                    /\ \A i \in 1..Len(q.found) : q.found[i].doc = store[q.found[i].id]
            /\ (r.pc = "respond" /\ r \notin inflight') =>
                 /\ Answers(r) /\ last'.status = 200
                 /\ Len(last'.rows) = Len(r.found)
                 /\ \A i \in 1..Len(r.found) :
                      /\ last'.rows[i].id = r.found[i].id
                      /\ last'.rows[i].likedByUser =
                           (r.caller # Anon /\ Member(r.found[i].doc.likedBy, r.caller))
      ]_vars

\* u1 has listed the Dinner recipes: Salad, then Pasta, which u1 likes
C18_Witness ==
    /\ last.req.op = "list" /\ last.status = 200
    /\ last.req.category = "Dinner" /\ last.req.caller = "u1"
    /\ Len(last.rows) = 2
    /\ last.rows[1].id = 3 /\ ~last.rows[1].likedByUser
    /\ last.rows[2].id = 1 /\ last.rows[2].likedByUser

\* p occurs in s as a substring, character by character, case folded
ContainsLiteral(s, p) ==
    \E i \in 0..(Len(s) - Len(p)) :
        \A j \in 1..Len(p) : Lower(s[i + j]) = Lower(p[j])

(***************************************************************************)
(* C19: GET /search/query?q=s finds exactly the recipes whose title        *)
(* contains s as a case-insensitive literal substring, for every s, also   *)
(* one with ".", "*", "(" or "[", and all recipes for an absent q.         *)
(***************************************************************************)
C19_SearchLiteral ==
    [][\A r \in inflight :
         (r.op = "search" /\ r.pc = "find" /\ r \notin inflight') =>
            \E q \in inflight' :
               /\ q.n = r.n
               /\ FoundIds(q.found) =
                    {id \in 1..Len(store) :
                       /\ store[id].exists
                       /\ ContainsLiteral(Chars(store[id].title), Pattern(r.q))}
      ]_vars

(***************************************************************************)
(* GET /favorites  (recipes.js:146-163): the recipes whose likedBy holds   *)
(* the caller, filtered by the title pattern when q is given and not       *)
(* empty, newest first.  The rows carry no annotation.                     *)
(***************************************************************************)
StartFavorites(cap, users, queries) ==
    \E u \in users, q \in queries :
        /\ Accept(cap, [op |-> "favorites", pc |-> "find", caller |-> u, id |-> BadId,
                        q |-> q])
        /\ UNCHANGED <<store, media, last, nextAsset, cloudinaryOk>>

\* q ? { title: new RegExp(q, "i") } : {}
HasFilter(q) == q.given /\ q.s # <<>>

\* the ids Recipe.find({ likedBy: userId, ...searchFilter }) matches
FavoriteMatching(u, q) ==
    {id \in 1..Len(store) :
        /\ store[id].exists
        /\ \E i \in 1..Len(store[id].likedBy) : store[id].likedBy[i] = u
        /\ (HasFilter(q) => RegExpTest(q.s, Chars(store[id].title)))}

FavoritesFind(r) ==
    /\ r.op = "favorites" /\ r.pc = "find"
    /\ IF HasFilter(r.q) /\ RegExpThrows(r.q.s)
       THEN Respond(r, Error(500))
       ELSE LET ids == NewestFirst(FavoriteMatching(r.caller, r.q))
            IN  Step(r, [r EXCEPT !.pc = "respond"] @@
                        [found |-> [i \in 1..Len(ids) |->
                                      [id |-> ids[i], doc |-> store[ids[i]]]]])
    /\ UNCHANGED <<store, media, started, nextAsset, cloudinaryOk>>

FavoritesRespond(r) ==
    /\ r.op = "favorites" /\ r.pc = "respond"
    /\ Respond(r, [status |-> 200, rows |-> r.found])
    /\ UNCHANGED <<store, media, started, nextAsset, cloudinaryOk>>

(***************************************************************************)
(* The favorites model: the Pasta and Broth recipes; u1 and u2 toggle      *)
(* likes, u1 reads its favorites, the admin may delete Broth and u2 may    *)
(* create a recipe.                                                        *)
(***************************************************************************)
InitFavorites ==
    /\ store = <<PastaRecipe, SoupRecipe>>
    /\ media = {}
    /\ inflight = {}
    /\ last = NoResponse
    /\ explore = ExploreMounted
    /\ form = FormMounted
    /\ started = 0
    /\ nextAsset = 1
    /\ cloudinaryOk = TRUE

NextFavorites ==
    \/ StartLike(MaxFavReq, {"u1"}, {1, 2})
    \/ StartLike(MaxFavReq, {"u2"}, {1})
    \/ StartFavorites(MaxFavReq, {"u1"}, {NoQuery, Query(<<"a", "s">>), Query(<<"(">>)})
    \/ StartDelete(MaxFavReq, {"root"}, {2})
    \/ StartCreate(MaxFavReq, {"u2"}, {PastaBody}, {FALSE})
    \/ \E r \in inflight : LikeFind(r)
    \/ \E r \in inflight : LikeSave(r)
    \/ \E r \in inflight : FavoritesFind(r)
    \/ \E r \in inflight : FavoritesRespond(r)
    \/ \E r \in inflight : DeleteFind(r)
    \/ \E r \in inflight : DeleteRemove(r)
    \/ \E r \in inflight : CreateHandler(r)

SpecFavorites == InitFavorites /\ [][NextFavorites]_vars

\* the existing recipes whose likedBy holds u
LikedRecipes(u) ==
    {id \in 1..Len(store) : store[id].exists /\ Member(store[id].likedBy, u)}

(***************************************************************************)
(* C20: GET /favorites of caller U without q finds exactly the existing    *)
(* recipes whose likedBy holds U; a recipe is among them once U's toggle   *)
(* has reported likedByUser true and no longer once U's toggle has         *)
(* reported false or the recipe is deleted; a toggle of another user       *)
(* leaves U's favorites as they are, and a created recipe is in nobody's.  *)
(***************************************************************************)
C20_FavoritesFollowToggles ==
    [][\A r \in inflight :
         /\ (r.op = "favorites" /\ r.pc = "find" /\ ~r.q.given /\ r \notin inflight') =>
              \E q \in inflight' :
                 q.n = r.n /\ FoundIds(q.found) = LikedRecipes(r.caller)
         /\ (r.op = "like" /\ Answers(r) /\ last'.status = 200) =>
              /\ last'.likedByUser = (r.id \in LikedRecipes(r.caller)')
              /\ \A u \in Users \ {r.caller} : LikedRecipes(u)' = LikedRecipes(u)
         /\ (r.op = "delete" /\ Answers(r) /\ last'.status = 200) =>
              \A u \in Users : r.id \notin LikedRecipes(u)'
         /\ (r.op = "create" /\ Answers(r) /\ last'.status = 201) =>
              \A u \in Users : LikedRecipes(u)' = LikedRecipes(u)
      ]_vars

(***************************************************************************)
(* The race model: like toggles of u1 and u2 and updates of the owner on   *)
(* the example recipe, interleaved at their awaits.                        *)
(***************************************************************************)
\* an update of the title only
TitleBody == Body("Risotto", Absent, Absent, NoIngr, <<>>, Absent)

\* an update of the title, the category and the ingredients
StewBody == Body("Stew", Absent, "Soup", StrIngr("7"), <<>>, Absent)

NextRace ==
    \/ StartLike(MaxRaceReq, Likers, SeedIds)
    \/ StartUpdate(MaxRaceReq, {"u1"}, SeedIds, {TitleBody, StewBody}, {FALSE})
    \/ \E r \in inflight : LikeFind(r)
    \/ \E r \in inflight : LikeSave(r)
    \/ \E r \in inflight : UpdateFind(r)
    \/ \E r \in inflight : UpdateSave(r)

SpecRace == InitPasta /\ [][NextRace]_vars

\* the fields an update may assign
UpdateFields == ScalarFields \cup {"image", "ingredients"}

\* the request r ends its save in this step, on a recipe that is still stored
EndsSave(r) ==
    /\ r \in inflight /\ r.op \in {"like", "update"} /\ r.pc = "save"
    /\ Answers(r) /\ Exists(r.id)

(***************************************************************************)
(* C21 as claimed: when another request has saved the recipe between the   *)
(* read and the save of a like toggle or an update, that save succeeds and *)
(* the stored recipe becomes the document this request wrote (last write   *)
(* wins), whatever the earlier save changed.                               *)
(***************************************************************************)
C21_LastWriteWins ==
    [][\A r \in inflight :
         (EndsSave(r) /\ store[r.id] # r.orig) =>
            /\ last'.status = 200
            /\ \A f \in UpdateFields \cup {"likedBy"} : store'[r.id][f] = r.doc[f]
      ]_vars

(***************************************************************************)
(* C21 as amended: a save writes only what its request changed.  A like    *)
(* is pushed onto the likedBy the store holds; an unlike, and an update    *)
(* that changed the ingredients, replace the array if the recipe's version *)
(* is the one the request read and otherwise fail with 500 and write       *)
(* nothing; an update overwrites the fields to which it assigned a new     *)
(* value and keeps, for every other field and for likedBy, what the store  *)
(* holds, the changes of an earlier save included.                         *)
(***************************************************************************)
C21_SavesMergeChanges ==
    [][\A r \in inflight :
         EndsSave(r) =>
            LET before == store[r.id]
                after == store'[r.id]
                stale == before.v # r.orig.v
            IN  IF r.op = "like"
                THEN IF r.likedIndex = 0
                     THEN /\ last'.status = 200
                          /\ after.likedBy = Append(before.likedBy, r.caller)
                          /\ \A f \in UpdateFields : after[f] = before[f]
                     ELSE IF stale
                     THEN last'.status = 500 /\ store' = store
                     ELSE /\ last'.status = 200
                          /\ after.likedBy = r.doc.likedBy
                          /\ \A f \in UpdateFields : after[f] = before[f]
                ELSE IF r.doc.ingredients # r.orig.ingredients /\ stale
                     THEN last'.status = 500 /\ store' = store
                     ELSE /\ last'.status = 200
                          /\ after.likedBy = before.likedBy
                          /\ \A f \in UpdateFields :
                               after[f] = IF r.doc[f] # r.orig[f] THEN r.doc[f]
                                          ELSE before[f]
      ]_vars

\* the title update saved last, after the update that set the category to
\* Soup and that it did not see: the category is still Soup
C21_Witness ==
    /\ last.req.op = "update" /\ last.status = 200
    /\ last.req.body = TitleBody
    /\ last.req.orig.category = "Dinner"
    /\ store[1].title = "Risotto" /\ store[1].category = "Soup"

(***************************************************************************)
(* The Explore page of the client (src/unnamed/part_000).  The server is   *)
(* seen through its responses: a request settles with success or failure,  *)
(* and the like data of a response is drawn from LikeValues.               *)
(*   toggles   the handleHeartClick calls between their awaits             *)
(*   requests  the list and search requests sent and not yet answered      *)
(*   clicks, clicked, sent, settled  record the heart clicks handled, the  *)
(*             recipe clicked last, the toggle requests sent and the       *)
(*             outcome of the toggle that settled last                     *)
(***************************************************************************)
LikeValues ==
    {[liked |-> FALSE, likesCount |-> 0], [liked |-> FALSE, likesCount |-> 1],
     [liked |-> TRUE, likesCount |-> 1], [liked |-> TRUE, likesCount |-> 2]}

\* the like data a list or search refresh carries for a recipe
RefreshValues == {[liked |-> FALSE, likesCount |-> 0], [liked |-> TRUE, likesCount |-> 2]}

\* the like data of the recipes a list or search response carries
ResponseData(values) == UNION {[S -> values] : S \in SUBSET RecipeIds}

\* the entries overwritten whether or not a toggle is pending
UpdateLikesStateOverwrites(data) ==
    [id \in RecipeIds |->
        IF id \in DOMAIN data THEN data[id] ELSE explore.likesState[id]]

\* updateLikesStateFromData(data), part_000:85-98
UpdateLikesStateFromData(data) ==
    [id \in RecipeIds |->
        IF id \in DOMAIN data /\ id \notin explore.pendingToggles
        THEN data[id] ELSE explore.likesState[id]]

\* handleHeartClick without the pendingToggles test
HeartClickUnguarded(id) ==
    /\ explore.clicks < MaxClicks
    /\ LET e == [explore EXCEPT !.clicks = @ + 1, !.clicked = id]
           prev == explore.likesState[id]
       IN  explore' =
             IF ~explore.user THEN [e EXCEPT !.showLoginPrompt = TRUE]
             ELSE [e EXCEPT
                     !.likesState[id] =
                        [liked |-> ~prev.liked,
                         likesCount |-> prev.likesCount + (IF prev.liked THEN -1 ELSE 1)],
                     !.pendingToggles = @ \cup {id},
                     !.toggles = @ \cup {[id |-> id, pc |-> "toggle",
                                          prevLiked |-> prev.liked,
                                          prevCount |-> prev.likesCount]},
                     !.sent = @ + 1]
    /\ UNCHANGED <<serverVars, form>>

\* handleHeartClick(recipeId) up to its first await, part_000:164-186
HeartClick(id) ==
    /\ explore.clicks < MaxClicks
    /\ LET e == [explore EXCEPT !.clicks = @ + 1, !.clicked = id]
           prev == explore.likesState[id]
       IN  explore' =
             IF ~explore.user THEN [e EXCEPT !.showLoginPrompt = TRUE]
             ELSE IF id \in explore.pendingToggles THEN e
             ELSE [e EXCEPT
                     !.likesState[id] =
                        [liked |-> ~prev.liked,
                         likesCount |-> prev.likesCount + (IF prev.liked THEN -1 ELSE 1)],
                     !.pendingToggles = @ \cup {id},
                     !.toggles = @ \cup {[id |-> id, pc |-> "toggle",
                                          prevLiked |-> prev.liked,
                                          prevCount |-> prev.likesCount]},
                     !.sent = @ + 1]
    /\ UNCHANGED <<serverVars, form>>

\* the catch block and the finally block, part_000:197-207
RolledBack(t) ==
    [explore EXCEPT
       !.likesState[t.id] = [liked |-> t.prevLiked, likesCount |-> t.prevCount],
       !.pendingToggles = @ \ {t.id},
       !.toggles = @ \ {t},
       !.settled = [id |-> t.id, ok |-> FALSE, data |-> NotLiked]]

\* await toggleFavorite(recipeId) settles, part_000:186-187
ToggleSettles(t) ==
    /\ t \in explore.toggles /\ t.pc = "toggle"
    /\ \E ok \in BOOLEAN :
         explore' = IF ok
                    THEN [explore EXCEPT !.toggles = (@ \ {t}) \cup {[t EXCEPT !.pc = "refetch"]}]
                    ELSE RolledBack(t)
    /\ UNCHANGED <<serverVars, form>>

\* await axios.get(`/api/recipes/${recipeId}`) settles, part_000:187-207
RefetchSettles(t) ==
    /\ t \in explore.toggles /\ t.pc = "refetch"
    /\ \E ok \in BOOLEAN, data \in LikeValues :
         explore' = IF ok
                    THEN [explore EXCEPT
                            !.likesState[t.id] = data,
                            !.pendingToggles = @ \ {t.id},
                            !.toggles = @ \ {t},
                            !.settled = [id |-> t.id, ok |-> TRUE, data |-> data]]
                    ELSE RolledBack(t)
    /\ UNCHANGED <<serverVars, form>>

\* onClose of the login prompt, part_000:410
CloseLoginPrompt ==
    /\ explore.showLoginPrompt
    /\ explore' = [explore EXCEPT !.showLoginPrompt = FALSE]
    /\ UNCHANGED <<serverVars, form>>

\* fetchRecipes() up to its await, part_000:109-118
FetchRecipes ==
    /\ explore' = [explore EXCEPT !.requests = @ \cup {[kind |-> "list", q |-> ""]}]
    /\ UNCHANGED <<serverVars, form>>

\* the rest of fetchRecipes(), part_000:118-127
ListResponse(req, values) ==
    /\ req \in explore.requests /\ req.kind = "list"
    /\ \E ok \in BOOLEAN, data \in ResponseData(values) :
         explore' = IF ok
                    THEN [explore EXCEPT
                            !.requests = @ \ {req},
                            !.filteredRecipes = NoResults,
                            !.likesState = UpdateLikesStateFromData(data)]
                    ELSE [explore EXCEPT !.requests = @ \ {req}, !.failed = TRUE]
    /\ UNCHANGED <<serverVars, form>>

\* the search effect run for a new search text: the cleanup of the effect
\* before it, then the effect itself, part_000:134-156
SearchEffect(e, text) ==
    IF Trim(text) = ""
    THEN [e EXCEPT !.search = text, !.timer = NoTimer, !.filteredRecipes = NoResults]
    ELSE [e EXCEPT !.search = text, !.timer = [set |-> TRUE, q |-> text]]

\* onChange of the search input, part_000:290, and the effect it triggers
TypeSearch(text) ==
    /\ text # explore.search
    /\ explore' = SearchEffect([explore EXCEPT !.failed = FALSE], text)
    /\ UNCHANGED <<serverVars, form>>

\* handleClearSearch(), part_000:158-162, and the effect it triggers
ClearSearch ==
    /\ explore.search # ""
    /\ explore' = SearchEffect([explore EXCEPT !.failed = FALSE,
                                               !.filteredRecipes = NoResults], "")
    /\ UNCHANGED <<serverVars, form>>

\* the debounce timer fires and sends the search request, part_000:141-145
TimerFires ==
    /\ explore.timer.set
    /\ explore' = [explore EXCEPT
                     !.timer = NoTimer,
                     !.requests = @ \cup {[kind |-> "search", q |-> explore.timer.q]}]
    /\ UNCHANGED <<serverVars, form>>

\* the search request settles, part_000:145-152 and 214-221
SearchResponse(req, values) ==
    /\ req \in explore.requests /\ req.kind = "search"
    /\ \E ok \in BOOLEAN, data \in ResponseData(values) :
         explore' = IF ok
                    THEN [explore EXCEPT
                            !.requests = @ \ {req},
                            !.filteredRecipes = [set |-> TRUE, q |-> req.q],
                            !.likesState = UpdateLikesStateFromData(data)]
                    ELSE [explore EXCEPT !.requests = @ \ {req}, !.failed = TRUE]
    /\ UNCHANGED <<serverVars, form>>

\* handleFavoriteUpdate() up to its await, part_000:210-225
FavoriteUpdated ==
    /\ explore' = [explore EXCEPT
                     !.requests = @ \cup
                        {IF Trim(explore.search) # ""
                         THEN [kind |-> "search", q |-> explore.search]
                         ELSE [kind |-> "list", q |-> ""]}]
    /\ UNCHANGED <<serverVars, form>>

(***************************************************************************)
(* The Explore like model: the page mounted by a logged-in user or by a    *)
(* visitor, its first list request sent; heart clicks on two recipes,      *)
(* their toggles settling, and list and search refreshes answered in any   *)
(* order.                                                                  *)
(***************************************************************************)
InitExplore ==
    /\ store = <<PastaRecipe, SoupRecipe>>
    /\ media = {}
    /\ inflight = {}
    /\ last = NoResponse
    /\ started = 0
    /\ nextAsset = 1
    /\ cloudinaryOk = TRUE
    /\ \E u \in BOOLEAN :
         explore = [ExploreMounted EXCEPT !.user = u,
                                          !.requests = {[kind |-> "list", q |-> ""]}]
    /\ form = FormMounted

NextExplore ==
    \/ \E id \in RecipeIds : HeartClick(id)
    \/ \E t \in explore.toggles : ToggleSettles(t)
    \/ \E t \in explore.toggles : RefetchSettles(t)
    \/ CloseLoginPrompt
    \/ FetchRecipes
    \/ \E req \in explore.requests : ListResponse(req, RefreshValues)
    \/ TypeSearch("a")
    \/ TimerFires
    \/ \E req \in explore.requests : SearchResponse(req, RefreshValues)

SpecExplore == InitExplore /\ [][NextExplore]_vars

\* every request the page has sent is answered or fails after some time
SpecExploreLive ==
    /\ SpecExplore
    /\ WF_vars(\E t \in explore.toggles : ToggleSettles(t))
    /\ WF_vars(\E t \in explore.toggles : RefetchSettles(t))

\* a heart click is handled in this step
Clicks == explore'.clicks = explore.clicks + 1

\* the like state of the page is as it was
LikeStateKept ==
    /\ explore'.likesState = explore.likesState
    /\ explore'.pendingToggles = explore.pendingToggles
    /\ explore'.toggles = explore.toggles
    /\ explore'.sent = explore.sent

(***************************************************************************)
(* C22: for each recipe at most one like toggle is in flight; a heart      *)
(* click on a recipe whose id is in pendingToggles sends no request and    *)
(* changes no like state; a click of a visitor who is not logged in sends  *)
(* no request, changes no like state and opens the login prompt.           *)
(***************************************************************************)
C22_OneToggleInFlight ==
    [][/\ \A id \in RecipeIds :
            Cardinality({t \in explore'.toggles : t.id = id}) <= 1
       /\ (Clicks /\ ~explore.user) => (LikeStateKept /\ explore'.showLoginPrompt)
       /\ (Clicks /\ explore.user /\ explore'.clicked \in explore.pendingToggles)
            => (LikeStateKept /\ explore'.showLoginPrompt = explore.showLoginPrompt)
      ]_vars

\* two clicks, one request: the second click hit the recipe whose toggle is
\* still in flight
C22_Witness ==
    /\ explore.user
    /\ explore.clicks = 2 /\ explore.sent = 1
    /\ explore.settled.id = 0
    /\ explore.clicked \in explore.pendingToggles
    /\ Cardinality(explore.toggles) = 1

(***************************************************************************)
(* C23: a heart click that sends a toggle flips the recipe's liked flag,   *)
(* moves likesCount by one and remembers the values before the click;      *)
(* when the toggle settles, the entry is the likedByUser and likes fetched *)
(* from the server if the toggle and the refetch succeeded and the values  *)
(* before the click if either failed, and the id leaves pendingToggles;    *)
(* while the id is pending no step (a list refresh, another click)         *)
(* changes the entry; and every pending id leaves pendingToggles           *)
(* eventually.                                                             *)
(***************************************************************************)
C23_OptimisticThenReconciled ==
    /\ [][\A id \in RecipeIds :
            LET entry == explore.likesState[id]
                entry2 == explore'.likesState[id]
            IN  /\ (explore'.sent = explore.sent + 1 /\ explore'.clicked = id) =>
                     /\ entry2.liked = ~entry.liked
                     /\ entry2.likesCount =
                          IF entry.liked THEN entry.likesCount - 1 ELSE entry.likesCount + 1
                     /\ id \in explore'.pendingToggles
                     /\ \E t \in explore'.toggles \ explore.toggles :
                          /\ t.id = id
                          /\ t.prevLiked = entry.liked /\ t.prevCount = entry.likesCount
                /\ \A t \in explore.toggles :
                     (t.id = id /\ \A t2 \in explore'.toggles : t2.id # id) =>
                        /\ id \notin explore'.pendingToggles
                        /\ explore'.settled.id = id
                        /\ entry2 = IF explore'.settled.ok THEN explore'.settled.data
                                    ELSE [liked |-> t.prevLiked, likesCount |-> t.prevCount]
                /\ (id \in explore.pendingToggles /\ id \in explore'.pendingToggles)
                     => entry2 = entry
         ]_vars
    /\ \A id \in RecipeIds :
         (id \in explore.pendingToggles) ~> (id \notin explore.pendingToggles)

\* the toggle of recipe 1 failed and the entry is back at the values it had
\* before the click, which a list refresh had set
C23_Witness ==
    /\ explore.settled.id = 1 /\ ~explore.settled.ok
    /\ 1 \notin explore.pendingToggles
    /\ explore.likesState[1] = [liked |-> TRUE, likesCount |-> 2]

\* the search texts typed
Texts == {"", " ", "a", "ab"}

\* the like data of a response when only the recipes shown matter
NoLikes == {NotLiked}

(***************************************************************************)
(* The Explore search model: the page mounted, its first list request      *)
(* sent; the search text typed and cleared, the debounce timer firing,     *)
(* favorite-updated events and category changes, and the responses of the  *)
(* list and search requests arriving in any order.                         *)
(***************************************************************************)
NextSearch ==
    \/ ClearSearch
    \/ \E text \in Texts : TypeSearch(text)
    \/ TimerFires
    \/ FavoriteUpdated
    \/ FetchRecipes
    \/ \E req \in explore.requests : SearchResponse(req, NoLikes)
    \/ \E req \in explore.requests : ListResponse(req, NoLikes)

SpecSearch == InitExplore /\ [][NextSearch]_vars

\* no request of the page is outstanding and none has failed since the
\* search text was last changed
Quiet == explore.requests = {} /\ ~explore.failed

(***************************************************************************)
(* C25: whenever the search text is empty and no request is outstanding,   *)
(* filteredRecipes is null; whenever the search text is non-empty and no   *)
(* request or debounce timer is outstanding, filteredRecipes holds the     *)
(* results of the current search text.                                     *)
(***************************************************************************)
C25_DisplayedFollowsSearch ==
    /\ (Trim(explore.search) = "" /\ Quiet) => ~explore.filteredRecipes.set
    /\ (Trim(explore.search) # "" /\ Quiet /\ ~explore.timer.set)
         => explore.filteredRecipes = [set |-> TRUE, q |-> explore.search]

(***************************************************************************)
(* The media model starts from the store that holds the example recipe     *)
(* with an uploaded image, and interleaves creates with an image, updates  *)
(* of that recipe that replace or clear its image (with and without a      *)
(* change of ingredients), likes that advance its version, and deletes.    *)
(***************************************************************************)
InitMedia ==
    /\ store = <<PastaWithImage>>
    /\ media = {Asset(1)}
    /\ inflight = {}
    /\ last = NoResponse
    /\ explore = ExploreMounted
    /\ form = FormMounted
    /\ started = 0
    /\ nextAsset = 2
    /\ cloudinaryOk = TRUE

NextMedia ==
    \/ StartCreate(MaxMediaReq, {"u1"}, {PastaBody}, {TRUE})
    \/ StartUpdate(MaxMediaReq, {"u1"}, SeedIds, {StewBody, ClearBody}, BOOLEAN)
    \/ StartDelete(MaxMediaReq, {"u1"}, SeedIds)
    \/ StartLike(MaxMediaReq, {"u2"}, SeedIds)
    \/ \E r \in inflight : CreateHandler(r)
    \/ \E r \in inflight : UpdateFind(r)
    \/ \E r \in inflight : UpdateDestroy(r)
    \/ \E r \in inflight : UpdateSave(r)
    \/ \E r \in inflight : DeleteFind(r)
    \/ \E r \in inflight : DeleteDestroy(r)
    \/ \E r \in inflight : DeleteRemove(r)
    \/ \E r \in inflight : LikeFind(r)
    \/ \E r \in inflight : LikeSave(r)

SpecMedia == InitMedia /\ [][NextMedia]_vars

\* the asset the image reference points at
AssetOf(img) == [folder |-> img.folder, name |-> img.name]

FormLoaded ==
    /\ ~form.loaded
    /\ \E ok \in BOOLEAN :
         form' = IF ok /\ Exists(1)
                 THEN [photoUrl |-> IF ImageTruthy(store[1].image) THEN "url" ELSE "",
                       imageFile |-> FALSE,
                       initialImageUrlWasPresent |-> ImageTruthy(store[1].image),
                       loaded |-> TRUE]
                 ELSE [form EXCEPT !.loaded = TRUE]
    /\ UNCHANGED <<serverVars, explore>>

\* handleFileChange(e) with a file chosen, EditRecipe.jsx:74-86
FormFileChange ==
    /\ form' = [form EXCEPT !.imageFile = TRUE, !.photoUrl = "blob"]
    /\ UNCHANGED <<serverVars, explore>>

\* handleClearImage(), EditRecipe.jsx:88-97; its button is rendered with the
\* preview only (:338-352)
FormClearImage ==
    /\ form.photoUrl # ""
    /\ form' = [form EXCEPT !.imageFile = FALSE, !.photoUrl = ""]
    /\ UNCHANGED <<serverVars, explore>>

\* the fields of the FormData other than the image, EditRecipe.jsx:128-136
FormBody(clearImage) == Body("Pasta", "Boil.", "Dinner", ArrIngr(<<"salt">>), <<>>, clearImage)

\* clearImage appended whenever the preview is empty
FormSubmitClearsEmpty(cap) ==
    /\ Accept(cap, [op |-> "update", pc |-> "find", caller |-> "u1", id |-> 1,
                    body |-> FormBody(IF ~form.imageFile /\ form.photoUrl = ""
                                      THEN "true" ELSE Absent),
                    file |-> UploadedFile(form.imageFile)])
    /\ Upload(form.imageFile)
    /\ UNCHANGED <<store, last, cloudinaryOk>>

\* handleSubmit(e) up to its await, EditRecipe.jsx:123-146, and the upload
\* middleware of PUT /:id
FormSubmit(cap) ==
    /\ Accept(cap, [op |-> "update", pc |-> "find", caller |-> "u1", id |-> 1,
                    body |-> FormBody(IF ~form.imageFile /\ form.photoUrl = ""
                                         /\ form.initialImageUrlWasPresent
                                      THEN "true" ELSE Absent),
                    file |-> UploadedFile(form.imageFile)])
    /\ Upload(form.imageFile)
    /\ UNCHANGED <<store, last, cloudinaryOk>>

(***************************************************************************)
(* The form model: the example recipe stored with or without an image, the *)
(* form mounted for it; file selections, clear-image clicks and submits in *)
(* any order, and the update route handling the submitted requests.        *)
(***************************************************************************)
InitForm ==
    /\ \E withImage \in BOOLEAN :
         /\ store = <<IF withImage THEN PastaWithImage ELSE PastaRecipe>>
         /\ media = IF withImage THEN {Asset(1)} ELSE {}
    /\ inflight = {}
    /\ last = NoResponse
    /\ explore = ExploreMounted
    /\ form = FormMounted
    /\ started = 0
    /\ nextAsset = 2
    /\ cloudinaryOk = TRUE

NextForm ==
    \/ FormLoaded
    \/ FormFileChange
    \/ FormClearImage
    \/ FormSubmit(MaxFormReq)
    \/ \E r \in inflight : UpdateFind(r)
    \/ \E r \in inflight : UpdateDestroy(r)
    \/ \E r \in inflight : UpdateSave(r)

SpecForm == InitForm /\ [][NextForm]_vars

\* the request carries clearImage "true"
CarriesClear(r) == r.body.clearImage = "true"

(***************************************************************************)
(* C26: the update request the EditRecipe form submits never carries both  *)
(* an image file and clearImage; it carries the file exactly when a file   *)
(* is selected, and clearImage "true" exactly when no file is selected,    *)
(* the preview is empty and the recipe had an image when it was loaded;    *)
(* a request that carries neither leaves the stored image and the Media    *)
(* Sidecar as they are in every step the server takes for it.              *)
(***************************************************************************)
C26_FormImageSignal ==
    [][/\ \A r \in inflight' \ inflight :
            (started' = started + 1) =>
               /\ ~(r.file.present /\ CarriesClear(r))
               /\ r.file.present <=> form.imageFile
               /\ CarriesClear(r) <=> (/\ ~form.imageFile
                                       /\ form.photoUrl = ""
                                       /\ form.initialImageUrlWasPresent)
       /\ \A r \in inflight \ inflight' :
            (~r.file.present /\ ~CarriesClear(r)) =>
               /\ media' = media
               /\ Exists(r.id) => store'[r.id].image = store[r.id].image
      ]_vars

\* the image was cleared in the form of a recipe loaded with an image, the
\* submitted request carried clearImage alone, and the stored image is empty
C26_Witness ==
    /\ form.initialImageUrlWasPresent /\ form.photoUrl = "" /\ ~form.imageFile
    /\ last.req.op = "update" /\ last.status = 200
    /\ CarriesClear(last.req) /\ ~last.req.file.present
    /\ store[1].image = EmptyImage

====
